---- MODULE Spec2Model ----
(***************************************************************************)
(* Model of the EAIN decision engine: the rule chain and aggregator of     *)
(* src/metta/metta_shim.py, the provenance recorder of                     *)
(* src/provenance/provenance.py and the atom-store facade of               *)
(* src/metta/metta_client.py.                                              *)
(*                                                                         *)
(* Numbers are fixed point.  Returns, volatilities and confidences are in  *)
(* hundredths (0.95 is 95); percent_change is in percent units; a score is *)
(* in two-hundredths, because the decision weights are multiples of 1/2.   *)
(***************************************************************************)
EXTENDS Integers, Sequences, FiniteSets, TLC

VARIABLES
    investor,        \* investor profile of the evaluation in progress
    asset,           \* asset snapshot of the evaluation in progress
    record_provenance, \* the record_provenance argument of the last call
    disk,            \* what the disk does to the next provenance write
    res,             \* result of the last single rule application
    decision,        \* <<>> or <<Decision>> returned by evaluate_asset
    pc,              \* "start", "done": position of the pure-function runs
    PROV_FILES,      \* files under PROVENANCE_DIR: path -> content
    now,             \* int(time.time())
    ATOM_STORE,      \* metta_client.ATOM_STORE: id -> record
    uuid,            \* number of uuid4() values drawn so far
    issued,          \* ids and receipts handed back to callers, with the
                     \* record stored under them
    ret              \* outcome of the last facade call

vars == <<investor, asset, record_provenance, disk, res, decision, pc,
          PROV_FILES, now, ATOM_STORE, uuid, issued, ret>>

----------------------------------------------------------------------------
(* Python values of the optional numeric fields.                           *)

None == [t |-> "none", n |-> 0]
Num(x) == [t |-> "num", n |-> x]
NumStr(x) == [t |-> "numstr", n |-> x]      \* a parseable string, "60"
Bad == [t |-> "bad", n |-> 0]               \* a non-numeric string, "n/a"

\* bool(v): None and 0 are falsy, every non-empty string is truthy
Truthy(v) == \/ v.t \in {"numstr", "bad"}
             \/ v.t = "num" /\ v.n # 0

\* a or b
Or(a, b) == IF Truthy(a) THEN a ELSE b

\* float(v) succeeds
CanFloat(v) == v.t \in {"num", "numstr"}

\* float(v), where it succeeds
Float(v) == v.n

----------------------------------------------------------------------------
(* Strings are sequences of characters; non-string values carry a tag.     *)

Str(s) == [t |-> "str", s |-> s]
NoStr == [t |-> "none", s |-> <<>>]          \* None / key absent
NotAStr == [t |-> "obj", s |-> <<>>]         \* a truthy non-string value

LowerChar(c) == IF c = "A" THEN "a" ELSE IF c = "B" THEN "b" ELSE c

\* str.lower()
lower(s) == [i \in 1..Len(s) |-> LowerChar(s[i])]

RECURSIVE lstrip(_)
lstrip(s) == IF s # <<>> /\ Head(s) = " " THEN lstrip(Tail(s)) ELSE s

RECURSIVE rstrip(_)
rstrip(s) == IF s # <<>> /\ s[Len(s)] = " "
             THEN rstrip(SubSeq(s, 1, Len(s) - 1)) ELSE s

\* str.strip()
strip(s) == rstrip(lstrip(s))

----------------------------------------------------------------------------
(* Program constants.                                                      *)

Scale == 100                \* hundredths per unit

RISK_THRESHOLDS ==
    [low    |-> [max_volatility |-> 15, min_return |-> 3],
     medium |-> [max_volatility |-> 30, min_return |-> 6],
     high   |-> [max_volatility |-> 60, min_return |-> 12]]

IndustryConfidence == 95
CarbonConfidence == 90
DropConfidence == 70
DropThreshold == -5
AcceptConfidence == 80
DeprioritizeConfidence == 60
DefaultConfidence == 20
FloorReturn == 0

\* rule results: "none" is {"outcome": None}, "raise" an escaping exception
NoOutcome == [outcome |-> "none", rule |-> "", confidence |-> 0]
Raise == [outcome |-> "raise", rule |-> "", confidence |-> 0]
Outcome(o, r, c) == [outcome |-> o, rule |-> r, confidence |-> c]

----------------------------------------------------------------------------
(* The four rules.  A non-dict investor or asset makes every .get raise.   *)

_rule_exclude_industry(inv, a) ==
    IF ~inv.isdict \/ ~a.isdict THEN Raise ELSE
    LET excluded == inv.excluded_industries
        sector == IF a.sector.t = "none" THEN Str(<<>>) ELSE a.sector
    IN  IF excluded = <<>> THEN NoOutcome
        ELSE IF sector.t # "str" THEN Raise
        ELSE IF \E i \in 1..Len(excluded) : excluded[i].t # "str" THEN Raise
        ELSE IF \E i \in 1..Len(excluded) :
                    lower(sector.s) = lower(strip(excluded[i].s))
             THEN Outcome("reject", "exclude_by_industry", IndustryConfidence)
             ELSE NoOutcome

_rule_exclude_by_carbon(inv, a) ==
    IF ~inv.isdict \/ ~a.isdict THEN Raise ELSE
    LET max_carbon == inv.max_carbon_score
        asset_carbon == Or(a.carbon_emissions, a.carbon_score)
    IN  IF max_carbon.t = "none" \/ asset_carbon.t = "none" THEN NoOutcome
        ELSE IF ~CanFloat(asset_carbon) THEN NoOutcome
        ELSE IF ~CanFloat(max_carbon) THEN Raise
        ELSE IF Float(asset_carbon) > Float(max_carbon)
             THEN Outcome("reject", "exclude_by_carbon", CarbonConfidence)
             ELSE NoOutcome

_rule_recent_large_drop(inv, a) ==
    IF ~a.isdict THEN Raise ELSE
    LET pct == a.percent_change
    IN  IF pct.t = "none" THEN NoOutcome
        ELSE IF ~CanFloat(pct) THEN NoOutcome
        ELSE IF Float(pct) <= DropThreshold
             THEN Outcome("deprioritize", "recent_large_drop", DropConfidence)
             ELSE NoOutcome

Max(x, y) == IF x >= y THEN x ELSE y

\* RISK_THRESHOLDS.get(risk, RISK_THRESHOLDS["medium"])
Thresholds(risk) ==
    IF risk \in DOMAIN RISK_THRESHOLDS THEN RISK_THRESHOLDS[risk]
    ELSE RISK_THRESHOLDS["medium"]

_rule_return_and_risk(inv, a) ==
    IF ~inv.isdict \/ ~a.isdict THEN Raise ELSE
    LET risk == IF inv.risk_tolerance = "absent" THEN "medium"
                ELSE inv.risk_tolerance
        volatility == Or(Or(a.volatility, a.beta), a.stddev)
        pct == a.percent_change
        proxied == a.expected_return.t = "none" /\ pct.t # "none"
        expected_return ==
            IF proxied
            THEN Num(Max((Float(pct) * Scale) \div 100, FloorReturn))
            ELSE a.expected_return
        knows_return == expected_return.t # "none" /\ CanFloat(expected_return)
        knows_vol == volatility.t # "none" /\ CanFloat(volatility)
    IN  IF risk = "unhashable" THEN Raise
        ELSE IF proxied /\ ~CanFloat(pct) THEN Raise
        ELSE IF ~knows_return THEN NoOutcome
        ELSE IF /\ Float(expected_return) >= Thresholds(risk).min_return
                /\ (~knows_vol
                    \/ Float(volatility) <= Thresholds(risk).max_volatility)
             THEN Outcome("accept", "accept_by_return_and_risk",
                          AcceptConfidence)
             ELSE Outcome("deprioritize", "deprioritize_by_return_or_risk",
                          DeprioritizeConfidence)

NumRules == 4

\* RULES[i](investor, asset)
RULES(i, inv, a) ==
    CASE i = 1 -> _rule_exclude_industry(inv, a)
      [] i = 2 -> _rule_exclude_by_carbon(inv, a)
      [] i = 3 -> _rule_recent_large_drop(inv, a)
      [] i = 4 -> _rule_return_and_risk(inv, a)

----------------------------------------------------------------------------
(* Provenance recorder.                                                    *)

PROVENANCE_DIR == "./provenance_logs"

\* a or b on symbol strings; "" stands for an absent (or empty) value
SymOr(a, b) == IF a # "" THEN a ELSE b

\* sha256_of_obj: a digest of the canonical (key-sorted) serialisation,
\* collision-free on the inputs of this model
sha256_of_obj(obj) == <<"sha256", obj>>

\* the document record_provenance_blob serialises
ProvEntry(raw, tag, ts) ==
    [timestamp |-> ts,
     source    |-> IF raw.source = "" THEN "unknown" ELSE raw.source,
     symbol    |-> SymOr(raw.symbol, raw.id),
     hash      |-> sha256_of_obj(raw),
     raw       |-> raw,
     tag       |-> tag]

\* os.path.join(PROVENANCE_DIR, f"{symbol}_{ts}.json")
ProvPath(symbol, ts) == [dir |-> PROVENANCE_DIR, symbol |-> symbol, ts |-> ts]

\* the file system after open(path, "w") and f.write(...): wr is what the
\* disk does ("ok", "open_error": nothing is created or changed,
\* "write_error": the file was truncated by open and holds no document)
WriteFile(files, path, doc, wr) ==
    IF wr = "open_error" THEN files
    ELSE [p \in DOMAIN files \cup {path} |->
             IF p = path THEN (IF wr = "ok" THEN <<doc>> ELSE <<>>)
             ELSE files[p]]

WriteOutcomes == {"ok", "open_error", "write_error"}

\* record_provenance_blob(raw, tag): [raised, receipt, files]
record_provenance_blob(raw, tag, ts, files, wr) ==
    IF ~raw.jsonable
    THEN [raised |-> TRUE, receipt |-> <<>>, files |-> files]
    ELSE LET entry == ProvEntry(raw, tag, ts)
             path == ProvPath(entry.symbol, ts)
         IN  [raised  |-> FALSE,
              receipt |-> <<[symbol |-> entry.symbol, hash |-> entry.hash,
                             path |-> path, timestamp |-> ts]>>,
              files   |-> WriteFile(files, path, entry, wr)]

----------------------------------------------------------------------------
(* Decision aggregator.                                                    *)

Node(r) == [rule |-> r.rule, outcome |-> r.outcome,
            confidence |-> r.confidence]

FoldInit == [reason_tree |-> <<>>, final_decision |-> "none",
             final_confidence |-> 0]

\* ApplyNode with an accept that takes over only when nothing was decided
ApplyNodeNoOverride(st, node) ==
    LET tree == Append(st.reason_tree, node)
        raised == [reason_tree |-> tree,
                   final_decision |-> node.outcome,
                   final_confidence |->
                       Max(st.final_confidence, node.confidence)]
        kept == [st EXCEPT !.reason_tree = tree]
    IN  CASE node.outcome = "reject" -> raised
          [] node.outcome = "accept" ->
                IF st.final_decision = "none" THEN raised ELSE kept
          [] node.outcome = "deprioritize" ->
                IF st.final_decision \notin {"accept", "reject"}
                THEN raised ELSE kept

\* ApplyNode with the confidence of the last applied node, not the maximum
ApplyNodeLastConfidence(st, node) ==
    LET tree == Append(st.reason_tree, node)
        raised == [reason_tree |-> tree,
                   final_decision |-> node.outcome,
                   final_confidence |-> node.confidence]
        kept == [st EXCEPT !.reason_tree = tree]
    IN  CASE node.outcome = "reject" -> raised
          [] node.outcome = "accept" ->
                IF st.final_decision # "accept" THEN raised ELSE kept
          [] node.outcome = "deprioritize" ->
                IF st.final_decision \notin {"accept", "reject"}
                THEN raised ELSE kept

\* the precedence block applied to one appended node
ApplyNode(st, node) ==
    LET tree == Append(st.reason_tree, node)
        raised == [reason_tree |-> tree,
                   final_decision |-> node.outcome,
                   final_confidence |->
                       Max(st.final_confidence, node.confidence)]
        kept == [st EXCEPT !.reason_tree = tree]
    IN  CASE node.outcome = "reject" -> raised
          [] node.outcome = "accept" ->
                IF st.final_decision # "accept" THEN raised ELSE kept
          [] node.outcome = "deprioritize" ->
                IF st.final_decision \notin {"accept", "reject"}
                THEN raised ELSE kept

\* RunRules with an exception handler that leaves the loop
RECURSIVE RunRulesStopOnRaise(_, _, _, _)
RunRulesStopOnRaise(i, inv, a, st) ==
    IF i > NumRules THEN st
    ELSE LET r == RULES(i, inv, a)
         IN  IF r.outcome = "raise" THEN st
             ELSE IF r.outcome = "none"
                  THEN RunRulesStopOnRaise(i + 1, inv, a, st)
                  ELSE IF r.outcome = "reject"
                       THEN ApplyNode(st, Node(r))
                       ELSE RunRulesStopOnRaise(i + 1, inv, a,
                                                ApplyNode(st, Node(r)))

\* the for loop over RULES, from rule i on
RECURSIVE RunRules(_, _, _, _)
RunRules(i, inv, a, st) ==
    IF i > NumRules THEN st
    ELSE LET r == RULES(i, inv, a)
         IN  IF r.outcome \in {"raise", "none"}
             THEN RunRules(i + 1, inv, a, st)
             ELSE IF r.outcome = "reject"
                  THEN ApplyNode(st, Node(r))
                  ELSE RunRules(i + 1, inv, a, ApplyNode(st, Node(r)))

\* the default when no rule fired
DefaultIfNone(st) ==
    IF st.final_decision = "none"
    THEN [reason_tree |->
              Append(st.reason_tree,
                     [rule |-> "default_deprioritize",
                      outcome |-> "deprioritize",
                      confidence |-> DefaultConfidence]),
          final_decision |-> "deprioritize",
          final_confidence |-> DefaultConfidence]
    ELSE st

\* mapping with deprioritize weighted like reject
mappingDeprioritizeZero(d) ==
    CASE d = "accept" -> 2
      [] d = "deprioritize" -> 0
      [] d = "reject" -> 0
      [] OTHER -> 1

\* mapping.get(final_decision, 0.5), in halves
mapping(d) ==
    CASE d = "accept" -> 2
      [] d = "deprioritize" -> 1
      [] d = "reject" -> 0
      [] OTHER -> 1

Score(d, c) == mapping(d) * c

\* the Decision built from the fold's result st and the recorder's answer
\* prov, and the file system the call leaves
MakeDecision(symbol, st, prov, rp, ts, files) ==
    [raised |-> FALSE,
     value  |-> <<[asset       |-> symbol,
                   decision    |-> st.final_decision,
                   score       |-> Score(st.final_decision,
                                         st.final_confidence),
                   reason_tree |-> st.reason_tree,
                   confidence  |-> st.final_confidence,
                   provenance  |-> IF rp /\ ~prov.raised THEN prov.receipt
                                   ELSE <<>>,
                   timestamp   |-> ts]>>,
     files  |-> IF rp THEN prov.files ELSE files]

\* evaluate_asset(investor, asset, record_provenance=rp):
\* [raised, value, files]; value is <<>> or <<Decision>>
evaluate_asset(inv, a, rp, ts, files, wr) ==
    IF ~a.isdict
    THEN [raised |-> TRUE, value |-> <<>>, files |-> files]
    ELSE MakeDecision(SymOr(SymOr(a.symbol, a.id), "UNKNOWN"),
                      DefaultIfNone(RunRules(1, inv, a, FoldInit)),
                      record_provenance_blob(a, "metta_input", ts, files, wr),
                      rp, ts, files)

----------------------------------------------------------------------------
(* Atom store and client facade.  uuid4() never repeats a value: the n-th  *)
(* draw is modelled by the number n.                                       *)

\* AtomId with an id that does not depend on the draw
AtomIdFixed(n) == <<"atom", 0>>

\* f"atom_{uuid.uuid4().hex[:12]}"
AtomId(n) == <<"atom", n>>

\* f"decision_{uuid.uuid4().hex[:10]}"
DecisionId(n) == <<"decision", n>>

\* ATOM_STORE[key] = value
Put(store, key, value) ==
    [k \in DOMAIN store \cup {key} |-> IF k = key THEN value ELSE store[k]]

\* assert_investor_profile, through _store_atom: [id, store, uuid]
assert_investor_profile(profile, store, n, ts) ==
    LET atom_id == AtomId(n + 1)
    IN  [id    |-> atom_id,
         store |-> Put(store, atom_id,
                       [type |-> "Investor", profile |-> profile,
                        _id |-> atom_id, _ts |-> ts]),
         uuid  |-> n + 1]

\* assert_asset_atom, through _store_atom: [id, store, uuid]
assert_asset_atom(a, store, n, ts) ==
    LET atom_id == AtomId(n + 1)
    IN  [id    |-> atom_id,
         store |-> Put(store, atom_id,
                       [type |-> "Asset", asset |-> a,
                        _id |-> atom_id, _ts |-> ts]),
         uuid  |-> n + 1]

\* the facade's substitute Decision
FallbackDecision(a, ts) ==
    [asset       |-> a.symbol,
     decision    |-> "deprioritize",
     score       |-> 0,
     reason_tree |-> <<[rule |-> "metta_error"]>>,
     confidence  |-> 0,
     provenance  |-> <<>>,
     timestamp   |-> ts]

\* decision["_investor_atom"] = ..., ["_asset_atom"], ["_decision_id"]
Enrich(d, inv_id, asset_id, dec_id) ==
    [asset          |-> d.asset,
     decision       |-> d.decision,
     score          |-> d.score,
     reason_tree    |-> d.reason_tree,
     confidence     |-> d.confidence,
     provenance     |-> d.provenance,
     timestamp      |-> d.timestamp,
     _investor_atom |-> inv_id,
     _asset_atom    |-> asset_id,
     _decision_id   |-> dec_id]

\* the stored decision: d enriched with the atom ids and stored under a
\* fresh decision id, after the input atoms i and s were stored
StoreDecision(d, i, s, dec_id, files) ==
    [raised |-> FALSE,
     value  |-> <<Enrich(d, i.id, s.id, dec_id)>>,
     store  |-> Put(s.store, dec_id, Enrich(d, i.id, s.id, dec_id)),
     uuid   |-> s.uuid + 1,
     files  |-> files]

\* the try block around the shim call and what follows it: r is what
\* metta_shim.evaluate_asset did, i and s the stored input atoms
AfterShim(a, i, s, r, ts) ==
    IF r.raised /\ ~a.isdict
    THEN \* the except block's asset.get("symbol") raises as well
         [raised |-> TRUE, value |-> <<>>, store |-> s.store,
          uuid |-> s.uuid, files |-> r.files]
    ELSE StoreDecision(IF r.raised THEN FallbackDecision(a, ts)
                       ELSE r.value[1],
                       i, s, DecisionId(s.uuid + 1), r.files)

\* evaluate_asset_for_investor once the investor atom i is stored
AfterInvestorAtom(a, inv, rp, i, ts, files, wr) ==
    AfterShim(a, i, assert_asset_atom(a, i.store, i.uuid, ts),
              evaluate_asset(inv, a, rp, ts, files, wr), ts)

\* evaluate_asset_for_investor: [raised, value, store, uuid, files]
evaluate_asset_for_investor(a, inv, rp, store, n, ts, files, wr) ==
    AfterInvestorAtom(a, inv, rp,
                      assert_investor_profile(inv, store, n, ts),
                      ts, files, wr)

RECURSIVE batch_evaluate(_, _, _, _, _, _, _, _, _, _)

\* one iteration of the loop: r is what evaluate_asset_for_investor did
\* with assets[k]
BatchStep(assets, k, inv, rp, results, r, ts, wrs) ==
    IF ~r.raised
    THEN batch_evaluate(assets, k + 1, inv, rp, results \o r.value,
                        r.store, r.uuid, ts, r.files, wrs)
    ELSE IF assets[k].isdict
         THEN \* logged, the element is omitted
              batch_evaluate(assets, k + 1, inv, rp, results, r.store,
                             r.uuid, ts, r.files, wrs)
         ELSE \* a.get('symbol') in the handler raises
              [raised |-> TRUE, value |-> <<>>, store |-> r.store,
               uuid |-> r.uuid, files |-> r.files]

\* batch_evaluate from element k on: [raised, value, store, uuid, files];
\* wrs[k] is what the disk does to the k-th element's provenance write
batch_evaluate(assets, k, inv, rp, results, store, n, ts, files, wrs) ==
    IF k > Len(assets)
    THEN [raised |-> FALSE, value |-> results, store |-> store,
          uuid |-> n, files |-> files]
    ELSE BatchStep(assets, k, inv, rp, results,
                   evaluate_asset_for_investor(assets[k], inv, rp, store, n,
                                               ts, files, wrs[k]),
                   ts, wrs)

\* get_atom: <<>> is None
get_atom(store, atom_id) ==
    IF atom_id \in DOMAIN store THEN <<store[atom_id]>> ELSE <<>>

----------------------------------------------------------------------------
(* Bounds and input sets.                                                  *)

MaxExcluded == 1     \* longest excluded_industries list
MaxUuid == 5         \* uuid4() draws in one run of the facade
MaxTime == 1         \* seconds the clock advances
MaxBatch == 2        \* longest asset list handed to batch_evaluate
MaxReceipts == 3     \* distinct receipts handed back by the recorder

SeqsUpTo(S, n) == UNION {[1..k -> S] : k \in 0..n}

MkInvestor(risk, excluded, max_carbon) ==
    [isdict |-> TRUE, risk_tolerance |-> risk,
     excluded_industries |-> excluded, max_carbon_score |-> max_carbon]

\* a profile that is not a mapping
NonDictInvestor ==
    [isdict |-> FALSE, risk_tolerance |-> "absent",
     excluded_industries |-> <<>>, max_carbon_score |-> None]

MkAsset(symbol, id, jsonable, sector, ce, cs, pct, er, vol, beta, sd) ==
    [isdict |-> TRUE, jsonable |-> jsonable, symbol |-> symbol, id |-> id,
     source |-> "finnhub", sector |-> sector,
     carbon_emissions |-> ce, carbon_score |-> cs, percent_change |-> pct,
     expected_return |-> er, volatility |-> vol, beta |-> beta,
     stddev |-> sd]

\* a list element that is not a mapping
NonDictAsset ==
    [isdict |-> FALSE, jsonable |-> TRUE, symbol |-> "", id |-> "",
     source |-> "", sector |-> NoStr,
     carbon_emissions |-> None, carbon_score |-> None,
     percent_change |-> None, expected_return |-> None,
     volatility |-> None, beta |-> None, stddev |-> None]

ExcludedEntries == {Str(<<"a">>), Str(<<" ", "A", " ">>), NotAStr}
Sectors == {NoStr, Str(<<"a">>), Str(<<"A">>), Str(<<"a", " ">>), NotAStr}

ChainInvestors ==
    {MkInvestor(r, e, m) :
        r \in {"low", "medium", "high", "unhashable"},
        e \in SeqsUpTo(ExcludedEntries, MaxExcluded),
        m \in {None, Num(50), Bad}}
    \cup {NonDictInvestor}

ChainAssets ==
    {MkAsset("BTC", "", TRUE, s, ce, cs, pct, er, vol, None, None) :
        s \in Sectors,
        ce \in {None, Num(0), Num(60)},
        cs \in {None, Num(60)},
        pct \in {None, Num(-5), Num(-4), Num(10), Bad},
        er \in {None, Num(20)},
        vol \in {None, Num(40)}}

ProvInvestors == {MkInvestor("medium", <<>>, None),
                  MkInvestor("low", <<Str(<<"a">>)>>, Num(50))}

ProvAssets ==
    {MkAsset(sym, id, j, Str(<<"a">>), None, None, pct, None, None, None,
             None) :
        sym \in {"", "BTC"}, id \in {"", "bitcoin"}, j \in BOOLEAN,
        pct \in {None, Num(-5), Num(10)}}

CarbonInvestors ==
    {MkInvestor("medium", <<>>, m) :
        m \in {None, Num(0), Num(50), NumStr(50), Bad}}

CarbonValues == {None, Num(0), Num(40), Num(60), NumStr(60), Bad}

CarbonAssets ==
    {MkAsset("BTC", "", TRUE, NoStr, ce, cs, None, None, None, None, None) :
        ce \in CarbonValues, cs \in CarbonValues}

RiskInvestors ==
    {MkInvestor(r, <<>>, None) :
        r \in {"low", "medium", "high", "yolo", "absent", "unhashable"}}

RiskAssets ==
    {MkAsset("BTC", "", TRUE, NoStr, None, None, pct, er, vol, beta, sd) :
        pct \in {None, Num(-8), Num(10), Bad},
        er \in {None, Num(0), Num(5), Num(20), Bad},
        vol \in {None, Num(0), Num(40), Bad},
        beta \in {None, Num(0), Num(20), Num(90)},
        sd \in {None, Num(10)}}

FacadeInvestors == {MkInvestor("low", <<Str(<<"a">>)>>, Num(50))}

FacadeAssets ==
    {MkAsset("BTC", "", TRUE, Str(<<"a">>), None, None, Num(-5), None, None,
             None, None),
     NonDictAsset}

\* ids probed with get_atom: the last one drawn and the next, never drawn
CandidateIds(n) == {AtomId(n), DecisionId(n), AtomId(n + 1),
                    DecisionId(n + 1)}

\* uuid4() draws a batch over these assets makes: two per element, and a
\* third for the decision of an element that is a mapping
RECURSIVE Draws(_)
Draws(assets) ==
    IF assets = <<>> THEN 0
    ELSE (IF Head(assets).isdict THEN 3 ELSE 2) + Draws(Tail(assets))

Empty == [x \in {} |-> 0]
NoRet == [op |-> "none"]

----------------------------------------------------------------------------
(* Runs of the pure functions: Init draws the inputs, one action applies   *)
(* the function.                                                           *)

InitRest ==
    /\ res = NoOutcome
    /\ decision = <<>>
    /\ pc = "start"
    /\ PROV_FILES = Empty
    /\ now = 0
    /\ ATOM_STORE = Empty
    /\ uuid = 0
    /\ issued = {}
    /\ ret = NoRet

InitChain ==
    /\ investor \in ChainInvestors
    /\ asset \in ChainAssets
    /\ record_provenance \in BOOLEAN
    /\ disk = "ok"
    /\ InitRest

InitProv ==
    /\ investor \in ProvInvestors
    /\ asset \in ProvAssets
    /\ record_provenance \in BOOLEAN
    /\ disk \in WriteOutcomes
    /\ InitRest

InitCarbon ==
    /\ investor \in CarbonInvestors
    /\ asset \in CarbonAssets
    /\ record_provenance = FALSE
    /\ disk = "ok"
    /\ InitRest

InitReturnRisk ==
    /\ investor \in RiskInvestors
    /\ asset \in RiskAssets
    /\ record_provenance = FALSE
    /\ disk = "ok"
    /\ InitRest

\* metta_shim.evaluate_asset(investor, asset, record_provenance)
EvaluateAsset ==
    /\ pc = "start"
    /\ \E r \in {evaluate_asset(investor, asset, record_provenance, now,
                                 PROV_FILES, disk)} :
           /\ decision' = r.value
           /\ PROV_FILES' = r.files
    /\ pc' = "done"
    /\ UNCHANGED <<investor, asset, record_provenance, disk, res, now,
                   ATOM_STORE, uuid, issued, ret>>

\* _rule_exclude_by_carbon(investor, asset)
ApplyCarbonRule ==
    /\ pc = "start"
    /\ res' = _rule_exclude_by_carbon(investor, asset)
    /\ pc' = "done"
    /\ UNCHANGED <<investor, asset, record_provenance, disk, decision,
                   PROV_FILES, now, ATOM_STORE, uuid, issued, ret>>

\* _rule_return_and_risk(investor, asset)
ApplyReturnRiskRule ==
    /\ pc = "start"
    /\ res' = _rule_return_and_risk(investor, asset)
    /\ pc' = "done"
    /\ UNCHANGED <<investor, asset, record_provenance, disk, decision,
                   PROV_FILES, now, ATOM_STORE, uuid, issued, ret>>

NextChain == EvaluateAsset
NextCarbon == ApplyCarbonRule
NextReturnRisk == ApplyReturnRiskRule

SpecChain == InitChain /\ [][NextChain]_vars
SpecProv == InitProv /\ [][NextChain]_vars
SpecCarbon == InitCarbon /\ [][NextCarbon]_vars
SpecReturnRisk == InitReturnRisk /\ [][NextReturnRisk]_vars

----------------------------------------------------------------------------
(* Runs of the facade.                                                     *)

Init ==
    /\ investor = NonDictInvestor
    /\ asset = NonDictAsset
    /\ record_provenance = FALSE
    /\ disk = "ok"
    /\ res = NoOutcome
    /\ decision = <<>>
    /\ pc = "facade"
    /\ PROV_FILES = Empty
    /\ now = 0
    /\ ATOM_STORE = Empty
    /\ uuid = 0
    /\ issued = {}
    /\ ret = NoRet

\* the ids a returned Decision carries, with the records stored under them
Handed(store, ids) == {[id |-> i, record |-> store[i]] : i \in ids}

DecisionIds(d) == {d._investor_atom, d._asset_atom, d._decision_id}

AssertInvestorProfile ==
    /\ pc = "facade"
    /\ uuid + 1 <= MaxUuid
    /\ \E p \in FacadeInvestors :
          \E r \in {assert_investor_profile(p, ATOM_STORE, uuid, now)} :
              /\ ATOM_STORE' = r.store
              /\ uuid' = r.uuid
              /\ issued' = issued \cup Handed(r.store, {r.id})
              /\ ret' = [op |-> "assert_investor_profile", id |-> r.id]
    /\ UNCHANGED <<investor, asset, record_provenance, disk, res, decision,
                   pc, PROV_FILES, now>>

AssertAssetAtom ==
    /\ pc = "facade"
    /\ uuid + 1 <= MaxUuid
    /\ \E a \in FacadeAssets :
          \E r \in {assert_asset_atom(a, ATOM_STORE, uuid, now)} :
              /\ ATOM_STORE' = r.store
              /\ uuid' = r.uuid
              /\ issued' = issued \cup Handed(r.store, {r.id})
              /\ ret' = [op |-> "assert_asset_atom", id |-> r.id]
    /\ UNCHANGED <<investor, asset, record_provenance, disk, res, decision,
                   pc, PROV_FILES, now>>

EvaluateAssetForInvestor ==
    /\ pc = "facade"
    /\ uuid + 3 <= MaxUuid
    /\ \E a \in FacadeAssets, p \in FacadeInvestors, rp \in BOOLEAN,
          wr \in WriteOutcomes :
          \E r \in {evaluate_asset_for_investor(a, p, rp, ATOM_STORE, uuid,
                                                 now, PROV_FILES, wr)} :
              /\ ATOM_STORE' = r.store
              /\ uuid' = r.uuid
              /\ PROV_FILES' = r.files
              /\ issued' = IF r.raised THEN issued
                           ELSE issued
                                \cup Handed(r.store, DecisionIds(r.value[1]))
              /\ ret' = [op |-> "evaluate_asset_for_investor",
                         asset |-> a, raised |-> r.raised,
                         value |-> r.value]
    /\ UNCHANGED <<investor, asset, record_provenance, disk, res, decision,
                   pc, now>>

BatchEvaluate ==
    /\ pc = "facade"
    /\ \E assets \in SeqsUpTo(FacadeAssets, MaxBatch),
          p \in FacadeInvestors, rp \in BOOLEAN :
          /\ uuid + Draws(assets) <= MaxUuid
          /\ \E wrs \in [1..Len(assets) -> WriteOutcomes] :
                \E r \in {batch_evaluate(assets, 1, p, rp, <<>>, ATOM_STORE,
                                          uuid, now, PROV_FILES, wrs)} :
                    /\ ATOM_STORE' = r.store
                    /\ uuid' = r.uuid
                    /\ PROV_FILES' = r.files
                    /\ issued' =
                         IF r.raised THEN issued
                         ELSE issued
                              \cup UNION {Handed(r.store,
                                                 DecisionIds(r.value[k])) :
                                          k \in 1..Len(r.value)}
                    /\ ret' = [op |-> "batch_evaluate", assets |-> assets,
                               raised |-> r.raised, value |-> r.value]
    /\ UNCHANGED <<investor, asset, record_provenance, disk, res, decision,
                   pc, now>>

GetAtom ==
    /\ pc = "facade"
    /\ \E i \in CandidateIds(uuid) :
          ret' = [op |-> "get_atom", id |-> i,
                  value |-> get_atom(ATOM_STORE, i)]
    /\ UNCHANGED <<investor, asset, record_provenance, disk, res, decision,
                   pc, PROV_FILES, now, ATOM_STORE, uuid, issued>>

\* a second passes on the wall clock
Tick ==
    /\ pc \in {"facade", "recorder"}
    /\ now < MaxTime
    /\ now' = now + 1
    /\ UNCHANGED <<investor, asset, record_provenance, disk, res, decision,
                   pc, PROV_FILES, ATOM_STORE, uuid, issued, ret>>

Next ==
    \/ AssertInvestorProfile
    \/ AssertAssetAtom
    \/ EvaluateAssetForInvestor
    \/ BatchEvaluate
    \/ GetAtom
    \/ Tick

Spec == Init /\ [][Next]_vars

----------------------------------------------------------------------------
(* Runs of the provenance recorder on its own.                             *)

RecorderAssets ==
    {MkAsset(sym, "", j, NoStr, None, None, pct, None, None, None, None) :
        sym \in {"BTC", "ETH"}, j \in BOOLEAN, pct \in {Num(-5), Num(10)}}

InitRecorder ==
    /\ investor = NonDictInvestor
    /\ asset = NonDictAsset
    /\ record_provenance = TRUE
    /\ disk = "ok"
    /\ res = NoOutcome
    /\ decision = <<>>
    /\ pc = "recorder"
    /\ PROV_FILES = Empty
    /\ now = 0
    /\ ATOM_STORE = Empty
    /\ uuid = 0
    /\ issued = {}
    /\ ret = NoRet

\* record_provenance_blob(raw, tag="metta_input")
RecordProvenanceBlob ==
    /\ pc = "recorder"
    /\ Cardinality(issued) < MaxReceipts
    /\ \E raw \in RecorderAssets, wr \in WriteOutcomes :
          \E r \in {record_provenance_blob(raw, "metta_input", now,
                                           PROV_FILES, wr)} :
              /\ PROV_FILES' = r.files
              /\ disk' = wr
              /\ asset' = raw
              /\ issued' = IF r.raised THEN issued
                           ELSE issued
                                \cup {[id |-> r.receipt[1].path,
                                       record |-> r.receipt[1],
                                       raw |-> raw,
                                       wrote |-> wr = "ok"]}
              /\ ret' = [op |-> "record_provenance_blob",
                         raised |-> r.raised, value |-> r.receipt]
    /\ UNCHANGED <<investor, record_provenance, res, decision, pc, now,
                   ATOM_STORE, uuid>>

NextRecorder ==
    \/ RecordProvenanceBlob
    \/ Tick

SpecRecorder == InitRecorder /\ [][NextRecorder]_vars

----------------------------------------------------------------------------
(* Properties.                                                             *)

Done == pc = "done" /\ Len(decision) = 1
D == decision[1]
RuleOutcome(i) == RULES(i, investor, asset).outcome

\* normalisation of a sector or an excluded entry: trimmed, lower case
Normalised(s) == lower(strip(s))

SectorExcluded ==
    /\ investor.isdict
    /\ investor.excluded_industries # <<>>
    /\ asset.sector.t = "str"
    /\ \A i \in 1..Len(investor.excluded_industries) :
          investor.excluded_industries[i].t = "str"
    /\ \E i \in 1..Len(investor.excluded_industries) :
          Normalised(asset.sector.s)
              = Normalised(investor.excluded_industries[i].s)

\* C1: an asset whose sector matches an excluded entry, case-insensitively
\* and after trimming surrounding whitespace, is rejected with confidence
\* 0.95 and reason_tree holds exactly the exclude_by_industry node.
C1_ExcludedSectorRejected ==
    (pc = "done" /\ SectorExcluded) =>
        /\ Len(decision) = 1
        /\ D.decision = "reject"
        /\ D.confidence = 95
        /\ Len(D.reason_tree) = 1
        /\ D.reason_tree[1].rule = "exclude_by_industry"
        /\ D.reason_tree[1].outcome = "reject"

LargeDropNoViolation ==
    /\ asset.isdict
    /\ CanFloat(asset.percent_change)
    /\ asset.percent_change.n <= -5
    /\ RuleOutcome(1) # "reject"
    /\ RuleOutcome(2) # "reject"

Weight == [accept |-> 2, deprioritize |-> 1, reject |-> 0]

NoRuleFired == \A i \in 1..NumRules : RuleOutcome(i) \in {"none", "raise"}

\* C3: score = {accept: 1.0, deprioritize: 0.5, reject: 0.0}[decision] *
\* confidence for every returned Decision (scores in two-hundredths), and
\* when no rule fires the Decision is deprioritize, 0.2, score 0.1.
C3_ScoreIsWeightTimesConfidence ==
    Done =>
        /\ D.decision \in DOMAIN Weight
        /\ D.score = Weight[D.decision] * D.confidence
        /\ NoRuleFired =>
              /\ D.decision = "deprioritize"
              /\ D.confidence = 20
              /\ D.score = 20
              /\ Len(D.reason_tree) = 1

C3_Witness ==
    /\ Done
    /\ NoRuleFired
    /\ D.reason_tree[1].rule = "default_deprioritize"
    /\ D.score = 20

SetMax(S) == CHOOSE x \in S : \A y \in S : y <= x

WinningConfidences ==
    {D.reason_tree[i].confidence :
        i \in {j \in 1..Len(D.reason_tree) :
                  D.reason_tree[j].outcome = D.decision}}

\* C4: the final confidence is the maximum confidence over the reason_tree
\* nodes whose outcome is the final decision.
C4_ConfidenceIsMaxOfWinningNodes ==
    Done =>
        /\ WinningConfidences # {}
        /\ D.confidence = SetMax(WinningConfidences)

C4_Witness ==
    /\ Done
    /\ Len(D.reason_tree) = 2
    /\ D.reason_tree[1].outcome = "deprioritize"
    /\ D.reason_tree[1].confidence = 70
    /\ D.reason_tree[2].outcome = "deprioritize"
    /\ D.reason_tree[2].confidence = 60
    /\ D.confidence = 70

\* the nodes the rules from i on contribute when a raising rule counts as
\* one without outcome: in order, up to and including the first reject
RECURSIVE ExpectedNodes(_)
ExpectedNodes(i) ==
    IF i > NumRules THEN <<>>
    ELSE LET r == RULES(i, investor, asset)
         IN  IF r.outcome \in {"none", "raise"} THEN ExpectedNodes(i + 1)
             ELSE IF r.outcome = "reject" THEN <<Node(r)>>
             ELSE <<Node(r)>> \o ExpectedNodes(i + 1)

SomeRuleRaises == \E i \in 1..NumRules : RuleOutcome(i) = "raise"

\* C5: when a rule raises, evaluate_asset still returns a Decision, the
\* raising rule has no node, and the later rules contribute their nodes as
\* if the raising rule had returned no outcome.
C5_RaisingRuleIsSkipped ==
    (pc = "done" /\ asset.isdict /\ SomeRuleRaises) =>
        /\ Len(decision) = 1
        /\ D.decision \in {"accept", "reject", "deprioritize"}
        /\ D.reason_tree # <<>>
        /\ IF ExpectedNodes(1) = <<>>
           THEN /\ Len(D.reason_tree) = 1
                /\ D.reason_tree[1].rule = "default_deprioritize"
           ELSE D.reason_tree = ExpectedNodes(1)

C5_Witness ==
    /\ Done
    /\ RuleOutcome(2) = "raise"
    /\ RuleOutcome(3) = "deprioritize"
    /\ RuleOutcome(4) = "accept"
    /\ Len(D.reason_tree) = 2
    /\ D.decision = "accept"

RECURSIVE Mappings(_)
Mappings(assets) ==
    IF assets = <<>> THEN <<>>
    ELSE IF Head(assets).isdict
         THEN <<Head(assets)>> \o Mappings(Tail(assets))
         ELSE Mappings(Tail(assets))

\* C6: batch_evaluate never propagates an exception; an element whose
\* evaluation fails is omitted and the result holds, in input order, one
\* Decision for each of the others.
C6_BatchNeverAborts ==
    ret.op = "batch_evaluate" =>
        /\ ~ret.raised
        /\ Len(ret.value) = Len(Mappings(ret.assets))
        /\ \A k \in 1..Len(ret.value) :
              ATOM_STORE[ret.value[k]._asset_atom].asset
                  = Mappings(ret.assets)[k]

WriteFails == disk # "ok" \/ ~asset.jsonable

\* the document at the receipt's path is the record of that receipt
Persisted(receipt) ==
    /\ receipt.path \in DOMAIN PROV_FILES
    /\ Len(PROV_FILES[receipt.path]) = 1
    /\ PROV_FILES[receipt.path][1].hash = receipt.hash

\* C7: when the provenance write fails during an evaluation that records
\* provenance, the Decision is returned with provenance null; a Decision
\* carries a receipt only if the record it points to was persisted.
C7_FailedWriteGivesNullProvenance ==
    pc = "done" =>
        /\ Len(decision) = 1
        /\ (record_provenance /\ WriteFails) => D.provenance = <<>>
        /\ D.provenance # <<>> => Persisted(D.provenance[1])

\* the asset's carbon value: carbon_emissions whenever it is present
CarbonValue ==
    IF asset.carbon_emissions.t # "none" THEN asset.carbon_emissions
    ELSE asset.carbon_score

CarbonExceeds ==
    /\ investor.max_carbon_score.t # "none"
    /\ CanFloat(investor.max_carbon_score)
    /\ CanFloat(CarbonValue)
    /\ CarbonValue.n > investor.max_carbon_score.n

\* C8: the carbon rule rejects (confidence 0.90) if and only if
\* max_carbon_score is set and the carbon value exceeds it, the carbon
\* value being carbon_emissions whenever present (0 included) and
\* carbon_score otherwise; missing or non-numeric values never reject.
C8_CarbonRejectsIffExceeds ==
    pc = "done" =>
        /\ res.outcome = "reject" <=> CarbonExceeds
        /\ res.outcome = "reject" =>
              res.rule = "exclude_by_carbon" /\ res.confidence = 90

RefTable ==
    [low    |-> [min_return |-> 3, max_volatility |-> 15],
     medium |-> [min_return |-> 6, max_volatility |-> 30],
     high   |-> [min_return |-> 12, max_volatility |-> 60]]

RefThresholds ==
    IF investor.risk_tolerance \in {"low", "medium", "high"}
    THEN RefTable[investor.risk_tolerance] ELSE RefTable["medium"]

\* <<>> when it cannot be determined
RefReturn ==
    IF CanFloat(asset.expected_return) THEN <<asset.expected_return.n>>
    ELSE IF CanFloat(asset.percent_change)
         THEN <<IF asset.percent_change.n > 0 THEN asset.percent_change.n
                ELSE 0>>
         ELSE <<>>

\* the first present and parseable of volatility, beta, stddev
RefVolatility ==
    IF CanFloat(asset.volatility) THEN <<asset.volatility.n>>
    ELSE IF CanFloat(asset.beta) THEN <<asset.beta.n>>
    ELSE IF CanFloat(asset.stddev) THEN <<asset.stddev.n>>
    ELSE <<>>

RefOutcome ==
    IF RefReturn = <<>> THEN "none"
    ELSE IF /\ RefReturn[1] >= RefThresholds.min_return
            /\ (RefVolatility = <<>>
                \/ RefVolatility[1] <= RefThresholds.max_volatility)
         THEN "accept" ELSE "deprioritize"

\* C9: the return-and-risk rule's outcome equals the reference: thresholds
\* from the table (medium when unrecognized), expected_return from the
\* field or the percent_change proxy, volatility the first present and
\* parseable of volatility, beta, stddev (0 counts as present), accept
\* (0.80) iff the return and volatility tests pass, else deprioritize
\* (0.60), no outcome when the return cannot be determined.
C9_ReturnRiskMatchesReference ==
    (pc = "done" /\ investor.risk_tolerance # "unhashable") =>
        /\ (IF res.outcome = "raise" THEN "none" ELSE res.outcome)
               = RefOutcome
        /\ res.outcome = "accept" => res.confidence = 80
        /\ res.outcome = "deprioritize" => res.confidence = 60

Drawn == {AtomId(n) : n \in 1..uuid} \cup {DecisionId(n) : n \in 1..uuid}

\* what a finished evaluate_asset_for_investor call leaves in the store
InputsStored ==
    ret.op = "evaluate_asset_for_investor" =>
        IF ret.raised
        THEN /\ get_atom(ATOM_STORE, AtomId(uuid - 1)) # <<>>
             /\ ATOM_STORE[AtomId(uuid - 1)].type = "Investor"
             /\ get_atom(ATOM_STORE, AtomId(uuid)) # <<>>
             /\ ATOM_STORE[AtomId(uuid)].asset = ret.asset
        ELSE LET d == ret.value[1]
             IN  /\ ATOM_STORE[d._investor_atom].type = "Investor"
                 /\ ATOM_STORE[d._asset_atom].asset = ret.asset
                 /\ ATOM_STORE[d._decision_id] = d

AtomsKept ==
    \A k \in DOMAIN ATOM_STORE :
        k \in DOMAIN ATOM_STORE' /\ ATOM_STORE'[k] = ATOM_STORE[k]

\* C10: every id the facade has returned stays retrievable with get_atom
\* and maps to the record stored under it; no atom is deleted or
\* overwritten; an evaluate call leaves both input atoms in the store, also
\* when it fails, and the decision when it returns; get_atom of an id never
\* drawn returns None.
C10_AtomsPersist ==
    /\ [](\A r \in issued : get_atom(ATOM_STORE, r.id) = <<r.record>>)
    /\ [](\A n \in (uuid + 1)..(MaxUuid + 1) :
             /\ get_atom(ATOM_STORE, AtomId(n)) = <<>>
             /\ get_atom(ATOM_STORE, DecisionId(n)) = <<>>)
    /\ [](ret.op = "get_atom" =>
             (ret.value = <<>>) = (ret.id \notin DOMAIN ATOM_STORE))
    /\ [](ret.op = "get_atom" /\ ret.id \notin Drawn => ret.value = <<>>)
    /\ []InputsStored
    /\ [][AtomsKept]_vars

C10_Witness ==
    /\ ret.op = "get_atom"
    /\ ret.value # <<>>
    /\ ret.id[1] = "atom"
    /\ ret.value[1].type = "Investor"
    /\ Cardinality(issued) >= 4
    /\ \E r \in issued : r.id = ret.id /\ r.record = ret.value[1]

AllWritesSucceeded == \A r \in issued : r.wrote

\* the document at the receipt's path holds the hash and the raw snapshot
\* of that receipt
IdentifiesOwnRecord(r) ==
    /\ r.id \in DOMAIN PROV_FILES
    /\ Len(PROV_FILES[r.id]) = 1
    /\ PROV_FILES[r.id][1].hash = r.record.hash
    /\ PROV_FILES[r.id][1].raw = r.raw

\* C11: after record_provenance_blob calls whose writes all succeeded,
\* every receipt ever returned still identifies its own persisted record:
\* a later recording never replaces an earlier one.
C11_ReceiptsKeepTheirRecord ==
    (pc = "recorder" /\ AllWritesSucceeded) =>
        \A r \in issued : IdentifiesOwnRecord(r)

====
